---- MODULE Spec2Model ----
(***************************************************************************)
(* Model of sc/qa/uitest/search_replace/tdf39959.py: the UI test           *)
(* test_tdf39959_find_replace_all_sheets.  The script is the sequence of   *)
(* actions below, one per statement that acts on the application.  The     *)
(* application side (Find & Replace dialog, edit fields, replace-all,      *)
(* undo) is not part of the file; it is modelled from the specification    *)
(* and kept in separate operators.                                         *)
(*                                                                         *)
(* Strings are sequences of one-character strings, so that typing,         *)
(* deleting and substring replacement are computed, not assumed.           *)
(***************************************************************************)
EXTENDS Integers, Sequences, FiniteSets, TLC

VARIABLES
    pc,          \* position of the script: the statement that runs next
    file,        \* content of the fixture tdf39959.ods: sheet -> position -> string
    activeSheet, \* index of the sheet shown when the fixture is loaded
    docOpen,     \* the document of load_file (calc_doc) is open
    doc,         \* cells of calc_doc: sheet -> position -> string
    undoStack,   \* undo stack of calc_doc: sequence of earlier cell contents
    dialogOpen,  \* the Find & Replace dialog (xDialog) is open
    searchterm,  \* edit field "searchterm": [text, cur, sel]
    replaceterm, \* edit field "replaceterm": [text, cur, sel]
    allsheets,   \* check box "allsheets"
    opened       \* the dialog's controls as they were when the dialog opened

vars == <<pc, file, activeSheet, docOpen, doc, undoStack, dialogOpen,
          searchterm, replaceterm, allsheets, opened>>

(***************************************************************************)
(* Bounds of the model.                                                    *)
(***************************************************************************)
\* number of sheets of the fixture (the script reads sheet index 1)
NumSheets == 2
\* longest content an edit field of the dialog holds when the dialog opens
MaxInitLen == 2

\* characters an edit field may hold when the dialog opens: one character that
\* occurs in none of the script's literals is enough to tell left-over content
\* from typed text
Chars == {"x"}

(***************************************************************************)
(* The literals of the script.                                             *)
(***************************************************************************)
\* "asdf", typed into searchterm (line 32)
SearchText == <<"a", "s", "d", "f">>
\* "bbb", typed into replaceterm (line 34)
ReplaceText == <<"b", "b", "b">>
\* "bbb ", expected in line 42
ExpectedReplaced == <<"b", "b", "b", " ">>
\* "abc", expected in line 43
ExpectedUntouched == <<"a", "b", "c">>
\* "asdf ", expected in line 46
ExpectedUndone == <<"a", "s", "d", "f", " ">>

\* the positions get_cell_by_position is called with: (sheet, second, third)
CellA == <<0, 0>>
CellB == <<0, 2>>
Positions == {CellA, CellB}
\* the sheet index the script reads (first argument after the document)
ReadSheet == 1
Sheets == 0 .. (NumSheets - 1)

(***************************************************************************)
(* Application side: strings and cells.                                    *)
(***************************************************************************)
RECURSIVE ReplaceInString(_, _, _)
\* every non-overlapping occurrence of pat in s, left to right, becomes rep
ReplaceInString(s, pat, rep) ==
    IF Len(pat) = 0 \/ Len(s) < Len(pat) THEN s
    ELSE IF SubSeq(s, 1, Len(pat)) = pat
         THEN rep \o ReplaceInString(SubSeq(s, Len(pat) + 1, Len(s)), pat, rep)
         ELSE <<Head(s)>> \o ReplaceInString(Tail(s), pat, rep)

\* s contains pat as a substring
Contains(s, pat) ==
    \E i \in 1 .. (Len(s) + 1) :
        i + Len(pat) - 1 <= Len(s) /\ SubSeq(s, i, i + Len(pat) - 1) = pat

\* the sheets a replace-all covers
SearchScope(all, active) == IF all THEN Sheets ELSE {active}

\* the cells after a replace-all of pat by rep
ReplaceAllCells(d, pat, rep, all, active) ==
    [s \in Sheets |->
        IF s \in SearchScope(all, active)
        THEN [p \in Positions |-> ReplaceInString(d[s][p], pat, rep)]
        ELSE d[s]]

\* get_cell_by_position(document, sheet, a, b).getString()
GetCellByPosition(d, sheet, a, b) == d[sheet][<<a, b>>]

(***************************************************************************)
(* Application side: an edit field.  sel means the whole text is selected. *)
(***************************************************************************)
Field(t, c, s) == [text |-> t, cur |-> c, sel |-> s]

\* KEYCODE CTRL+A
KeySelectAll(f) == Field(f.text, Len(f.text), TRUE)

\* KEYCODE BACKSPACE
KeyBackspace(f) ==
    IF f.sel THEN Field(<<>>, 0, FALSE)
    ELSE IF f.cur = 0 THEN f
    ELSE Field(SubSeq(f.text, 1, f.cur - 1) \o SubSeq(f.text, f.cur + 1, Len(f.text)),
               f.cur - 1, FALSE)

\* TEXT t: the typed text replaces the selection, or goes in at the cursor
KeyText(f, t) ==
    IF f.sel THEN Field(t, Len(t), FALSE)
    ELSE Field(SubSeq(f.text, 1, f.cur) \o t \o SubSeq(f.text, f.cur + 1, Len(f.text)),
               f.cur + Len(t), FALSE)

RECURSIVE SeqsUpTo(_)
SeqsUpTo(n) ==
    IF n = 0 THEN {<<>>}
    ELSE LET shorter == SeqsUpTo(n - 1)
         IN shorter \cup {Append(t, c) : t \in {u \in shorter : Len(u) = n - 1}, c \in Chars}

\* the states an edit field can have when the dialog opens
InitialFields ==
    {Field(t, c, s) : t \in SeqsUpTo(MaxInitLen), c \in 0 .. MaxInitLen, s \in BOOLEAN}

FieldOK(f) == f.cur <= Len(f.text)

\* CLICK on a check box toggles it
ClickCheckBox(b) == ~b

(***************************************************************************)
(* Application side: replace-all and undo on the document.                 *)
(***************************************************************************)
\* "replaceall" button: one undo entry for the whole replacement, none when
\* nothing was replaced
DoReplaceAll(d, u, pat, rep, all, active) ==
    LET new == ReplaceAllCells(d, pat, rep, all, active)
    IN [doc |-> new, undo |-> IF new = d THEN u ELSE Append(u, d)]

\* "search" button (find next): the document is not changed
DoSearch(d, u, pat, rep, all, active) == [doc |-> d, undo |-> u]

\* .uno:Undo: the top entry of the undo stack is reverted
UnoUndo(d, u) ==
    IF Len(u) = 0 THEN [doc |-> d, undo |-> u]
    ELSE [doc |-> u[Len(u)], undo |-> SubSeq(u, 1, Len(u) - 1)]

(***************************************************************************)
(* The fixture.                                                            *)
(***************************************************************************)
\* what a cell of a sheet the script does not read may hold
OtherCellContents == {<<>>, SearchText}

Fixtures ==
    {f \in [Sheets -> [Positions -> OtherCellContents \cup {ExpectedUndone, ExpectedUntouched}]] :
        /\ f[ReadSheet][CellA] = ExpectedUndone
        /\ f[ReadSheet][CellB] = ExpectedUntouched
        /\ \A s \in Sheets \ {ReadSheet} :
              f[s][CellA] \in OtherCellContents /\ f[s][CellB] = <<>>}

EmptyDoc == [s \in Sheets |-> [p \in Positions |-> <<>>]]

Init ==
    /\ pc = "load_file"
    /\ file \in Fixtures
    /\ activeSheet \in Sheets
    /\ docOpen = FALSE
    /\ doc = EmptyDoc
    /\ undoStack = <<>>
    /\ dialogOpen = FALSE
    /\ searchterm = Field(<<>>, 0, FALSE)
    /\ replaceterm = Field(<<>>, 0, FALSE)
    /\ allsheets = FALSE
    /\ opened = [searchterm |-> Field(<<>>, 0, FALSE),
                 replaceterm |-> Field(<<>>, 0, FALSE),
                 allsheets |-> FALSE]

(***************************************************************************)
(* The script, statement by statement.                                     *)
(***************************************************************************)
\* line 18-20: load_file(get_url_for_data_file("tdf39959.ods")) as calc_doc
LoadFile ==
    /\ pc = "load_file"
    /\ pc' = "open_dialog"
    /\ docOpen' = TRUE
    /\ doc' = file
    /\ undoStack' = <<>>
    /\ UNCHANGED <<file, activeSheet, dialogOpen, searchterm, replaceterm, allsheets, opened>>

\* line 28: execute_modeless_dialog_through_command(".uno:SearchDialog", close_button="close")
ExecuteSearchDialog ==
    /\ pc = "open_dialog"
    /\ pc' = "ctrl_a"
    /\ dialogOpen' = TRUE
    /\ \E st \in InitialFields, rt \in InitialFields, as \in BOOLEAN :
          /\ FieldOK(st) /\ FieldOK(rt)
          /\ searchterm' = st
          /\ replaceterm' = rt
          /\ allsheets' = as
          /\ opened' = [searchterm |-> st, replaceterm |-> rt, allsheets |-> as]
    /\ UNCHANGED <<file, activeSheet, docOpen, doc, undoStack>>

dialogVars == <<dialogOpen, searchterm, replaceterm, allsheets, opened>>
docVars == <<file, activeSheet, docOpen, doc, undoStack>>


\* the select-all keystroke left out
TypeCtrlA_omitted ==
    /\ pc = "ctrl_a"
    /\ pc' = "backspace"
    /\ UNCHANGED <<docVars, dialogVars>>

\* line 29-30: searchterm.executeAction("TYPE", {"KEYCODE":"CTRL+A"})
TypeCtrlA ==
    /\ pc = "ctrl_a"
    /\ pc' = "backspace"
    /\ searchterm' = KeySelectAll(searchterm)
    /\ UNCHANGED <<docVars, dialogOpen, replaceterm, allsheets, opened>>

\* line 31: searchterm.executeAction("TYPE", {"KEYCODE":"BACKSPACE"})
TypeBackspace ==
    /\ pc = "backspace"
    /\ pc' = "type_search"
    /\ searchterm' = KeyBackspace(searchterm)
    /\ UNCHANGED <<docVars, dialogOpen, replaceterm, allsheets, opened>>


\* a search term cut short: only "a" is typed
TypeSearchText_cut ==
    /\ pc = "type_search"
    /\ pc' = "type_replace"
    /\ searchterm' = KeyText(searchterm, <<Head(SearchText)>>)
    /\ UNCHANGED <<docVars, dialogOpen, replaceterm, allsheets, opened>>

\* line 32: searchterm.executeAction("TYPE", {"TEXT":"asdf"})
TypeSearchText ==
    /\ pc = "type_search"
    /\ pc' = "type_replace"
    /\ searchterm' = KeyText(searchterm, SearchText)
    /\ UNCHANGED <<docVars, dialogOpen, replaceterm, allsheets, opened>>


\* the script goes on to replace-all without the all-sheets click
TypeReplaceText_thenReplaceAll ==
    /\ pc = "type_replace"
    /\ pc' = "click_replaceall"
    /\ replaceterm' = KeyText(replaceterm, ReplaceText)
    /\ UNCHANGED <<docVars, dialogOpen, searchterm, allsheets, opened>>

\* line 33-34: replaceterm.executeAction("TYPE", {"TEXT":"bbb"})
TypeReplaceText ==
    /\ pc = "type_replace"
    /\ pc' = "click_allsheets"
    /\ replaceterm' = KeyText(replaceterm, ReplaceText)
    /\ UNCHANGED <<docVars, dialogOpen, searchterm, allsheets, opened>>

\* line 35-36: allsheets.executeAction("CLICK", tuple())
ClickAllSheets ==
    /\ pc = "click_allsheets"
    /\ pc' = "click_replaceall"
    /\ allsheets' = ClickCheckBox(allsheets)
    /\ UNCHANGED <<docVars, dialogOpen, searchterm, replaceterm, opened>>


\* the "search" button clicked in place of "replaceall"
ClickReplaceAll_search ==
    /\ pc = "click_replaceall"
    /\ pc' = "close_dialog"
    /\ LET r == DoSearch(doc, undoStack, searchterm.text, replaceterm.text,
                         allsheets, activeSheet)
       IN doc' = r.doc /\ undoStack' = r.undo
    /\ UNCHANGED <<file, activeSheet, docOpen, dialogVars>>

\* line 37-38: replaceall.executeAction("CLICK", tuple())
ClickReplaceAll ==
    /\ pc = "click_replaceall"
    /\ pc' = "close_dialog"
    /\ LET r == DoReplaceAll(doc, undoStack, searchterm.text, replaceterm.text,
                             allsheets, activeSheet)
       IN doc' = r.doc /\ undoStack' = r.undo
    /\ UNCHANGED <<file, activeSheet, docOpen, dialogVars>>


\* the dialog block left without a close button: the dialog stays open
CloseDialog_noButton ==
    /\ pc = "close_dialog"
    /\ pc' = "assert_replaced"
    /\ UNCHANGED <<docVars, dialogVars>>

\* line 28, leaving the block: the dialog's "close" button is clicked
CloseDialog ==
    /\ pc = "close_dialog"
    /\ pc' = "assert_replaced"
    /\ dialogOpen' = FALSE
    /\ UNCHANGED <<docVars, searchterm, replaceterm, allsheets, opened>>

\* assertEqual(get_cell_by_position(calc_doc, sheet, a, b).getString(), expected):
\* a failed assertion raises, which leaves the load_file block and closes the document
AssertCell(at, sheet, a, b, expected, then) ==
    /\ pc = at
    /\ IF GetCellByPosition(doc, sheet, a, b) = expected
       THEN pc' = then /\ docOpen' = docOpen
       ELSE pc' = "failed" /\ docOpen' = FALSE
    /\ UNCHANGED <<file, activeSheet, doc, undoStack, dialogVars>>

\* line 42: assertEqual(get_cell_by_position(calc_doc, 1, 0, 0).getString(), "bbb ")
AssertReplaced ==
    AssertCell("assert_replaced", ReadSheet, CellA[1], CellA[2], ExpectedReplaced,
               "assert_untouched")

\* line 43: assertEqual(get_cell_by_position(calc_doc, 1, 0, 2).getString(), "abc")
AssertUntouched ==
    AssertCell("assert_untouched", ReadSheet, CellB[1], CellB[2], ExpectedUntouched,
               "undo")


\* the Undo command left out
ExecuteUndo_omitted ==
    /\ pc = "undo"
    /\ pc' = "assert_undone"
    /\ UNCHANGED <<docVars, dialogVars>>

\* line 45: self.xUITest.executeCommand(".uno:Undo")
ExecuteUndo ==
    /\ pc = "undo"
    /\ pc' = "assert_undone"
    /\ LET r == UnoUndo(doc, undoStack)
       IN doc' = r.doc /\ undoStack' = r.undo
    /\ UNCHANGED <<file, activeSheet, docOpen, dialogVars>>

\* line 46: assertEqual(get_cell_by_position(calc_doc, 1, 0, 0).getString(), "asdf ")
AssertUndone ==
    AssertCell("assert_undone", ReadSheet, CellA[1], CellA[2], ExpectedUndone,
               "close_doc")

\* line 18, leaving the block: the document is closed
CloseDoc ==
    /\ pc = "close_doc"
    /\ pc' = "done"
    /\ docOpen' = FALSE
    /\ UNCHANGED <<file, activeSheet, doc, undoStack, dialogVars>>

Next ==
    \/ LoadFile
    \/ ExecuteSearchDialog
    \/ TypeCtrlA
    \/ TypeBackspace
    \/ TypeSearchText
    \/ TypeReplaceText
    \/ ClickAllSheets
    \/ ClickReplaceAll
    \/ CloseDialog
    \/ AssertReplaced
    \/ AssertUntouched
    \/ ExecuteUndo
    \/ AssertUndone
    \/ CloseDoc

Spec == Init /\ [][Next]_vars

\* the script never stops before its end: weak fairness of its next statement
FairSpec == Init /\ [][Next]_vars /\ WF_vars(Next)

(***************************************************************************)
(* Properties.                                                             *)
(***************************************************************************)
ReadA(d) == GetCellByPosition(d, ReadSheet, CellA[1], CellA[2])
ReadB(d) == GetCellByPosition(d, ReadSheet, CellB[1], CellB[2])

\* the statements between the replace-all click and the Undo command
AfterReplace == {"close_dialog", "assert_replaced", "assert_untouched", "undo"}
\* the statements after the Undo command
AfterUndo == {"assert_undone", "close_doc", "done"}
\* the statements inside the dialog block
InDialog == {"ctrl_a", "backspace", "type_search", "type_replace",
             "click_allsheets", "click_replaceall", "close_dialog"}
\* the statements after the dialog block that read cells or run Undo
AfterDialog == {"assert_replaced", "assert_untouched", "undo", "assert_undone"}
Asserts == {"assert_replaced", "assert_untouched", "assert_undone"}
Ended == {"done", "failed"}

\* C1: when replace-all was clicked with search term "asdf", replacement "bbb"
\* and all-sheets enabled, the cell read in line 42 (sheet index 1, 0, 0),
\* "asdf " in the fixture, holds "bbb " afterwards, whichever sheet is active.
C1_ReplaceAllReachesSheet2 ==
    (/\ pc \in {"close_dialog", "assert_replaced"}
     /\ searchterm.text = SearchText
     /\ replaceterm.text = ReplaceText
     /\ allsheets)
    => ReadA(doc) = ExpectedReplaced

\* C1 witness: such a replace-all was made while another sheet was active
C1_Witness ==
    /\ pc = "assert_replaced"
    /\ searchterm.text = SearchText /\ replaceterm.text = ReplaceText /\ allsheets
    /\ activeSheet # ReadSheet
    /\ ReadA(file) = ExpectedUndone
    /\ ReadA(doc) = ExpectedReplaced

\* C2: after the replace-all every cell whose fixture content does not contain
\* "asdf" holds its fixture content; the cell read in line 43 (sheet index 1,
\* 0, 2) still holds "abc".
C2_CellsWithoutMatchUnchanged ==
    pc \in AfterReplace =>
        /\ \A s \in Sheets, p \in Positions :
              ~Contains(file[s][p], SearchText) => doc[s][p] = file[s][p]
        /\ ReadB(doc) = ExpectedUntouched

\* C2 witness: the replace-all changed the document and line 43 is about to read
C2_Witness ==
    /\ pc = "assert_untouched"
    /\ doc # file
    /\ ReadA(doc) = ExpectedReplaced
    /\ ReadB(doc) = ExpectedUntouched

\* C3: the replace-all is at most one entry of the undo stack, nothing is
\* above it when Undo runs, and after the single Undo the cell read in line 46
\* holds its fixture content "asdf " again.
C3_UndoRestores ==
    /\ pc \in AfterReplace =>
          undoStack = (IF doc = file THEN <<>> ELSE <<file>>)
    /\ pc \in AfterUndo =>
          /\ ReadA(doc) = ExpectedUndone
          /\ doc = file

\* C3 witness: line 42 found "bbb ", Undo ran, the cell holds "asdf "
C3_Witness ==
    /\ pc = "assert_undone"
    /\ ReadA(doc) = ExpectedUndone
    /\ undoStack = <<>>

\* the statements of the script in their order
ScriptOrder ==
    <<"load_file", "open_dialog", "ctrl_a", "backspace", "type_search",
      "type_replace", "click_allsheets", "click_replaceall", "close_dialog",
      "assert_replaced", "assert_untouched", "undo", "assert_undone",
      "close_doc", "done">>

InOrder ==
    \E i \in 1 .. (Len(ScriptOrder) - 1) :
        pc = ScriptOrder[i] /\ pc' = ScriptOrder[i + 1]

AssertionFails == pc \in Asserts /\ pc' = "failed"

\* C4: every step of the script takes it from one statement to the next one of
\* the fixed order, or ends it on a failed assertion; and every run ends, at
\* the end of the sequence unless an assertion failed.
C4_Sequential ==
    /\ [][InOrder \/ AssertionFails]_vars
    /\ <>(pc \in Ended)

\* C4 witness: a run reached the end of the sequence
C4_Witness == pc = "done" /\ ~docOpen /\ ~dialogOpen

\* C5: when the replace-all button is clicked, all-sheets is enabled.
C5_AllSheetsEnabledAtClick ==
    pc = "click_replaceall" => allsheets

\* C6: when the replace-all button is clicked, the replacement term is "bbb".
C6_ReplaceTermAtClick ==
    pc = "click_replaceall" => replaceterm.text = ReplaceText

\* C7: whatever the searchterm field held when the dialog opened, from the
\* typing of "asdf" until the dialog closes, and so when replace-all is
\* clicked, the search term is exactly "asdf".
C7_SearchTermAtClick ==
    pc \in {"type_replace", "click_allsheets", "click_replaceall", "close_dialog"}
        => searchterm.text = SearchText

\* C7 witness: the field opened with unselected content and replace-all is next
C7_Witness ==
    /\ pc = "click_replaceall"
    /\ Len(opened.searchterm.text) = MaxInitLen
    /\ ~opened.searchterm.sel
    /\ opened.searchterm.cur = 0
    /\ searchterm.text = SearchText

\* C8: the dialog is open, over the open document, for every statement of the
\* dialog block up to the replace-all click; the cell reads and the Undo
\* command run with the document open and the dialog closed.
C8_DialogClosedBeforeReads ==
    /\ pc \in InDialog => (dialogOpen /\ docOpen)
    /\ pc \in AfterDialog => (docOpen /\ ~dialogOpen)

\* C8 witness: Undo is about to run, after the dialog was open and closed
C8_Witness ==
    /\ pc = "undo"
    /\ docOpen
    /\ ~dialogOpen
    /\ undoStack # <<>>
====
